---- MODULE Spec2Model ----
(***************************************************************************)
(* A model of src/perceptron.py: the Perceptron class (construction,       *)
(* feedforward, learn) over numpy arrays.                                  *)
(*                                                                         *)
(* Numbers.  A float is modelled as a fixed-point integer: the integer x   *)
(* stands for x / Unit.  NaN is a separate value that every arithmetic     *)
(* operation propagates.  exp is not computable here, so sigmoid is the    *)
(* tangent of the logistic curve at 0 (1/2 + x/4) clamped into the open    *)
(* interval (0, 1); deriv_sigmoid is computed from it as the source does.  *)
(*                                                                         *)
(* Arrays.  A numpy array is a record [nd, r, c, v]: nd the number of      *)
(* dimensions (1 or 2), r and c the shape (a 1-D array of length n has     *)
(* r = 1, c = n, which is also how numpy broadcasts it), v the entries.    *)
(* The record Raised stands for "the numpy call raised ValueError"; every  *)
(* array operation propagates it, as an exception skips the rest of the    *)
(* statement it is raised in.                                              *)
(***************************************************************************)
EXTENDS Integers, Sequences, FiniteSets, TLC

(* ------------------------------ bounds --------------------------------- *)

\* The fixed-point scale: Unit stands for 1.0.
Unit == 64
\* Constructor calls take 1..MaxLayers sizes, each in -1..MaxWidth.
MaxLayers == 3
MaxWidth == 2
\* Batches have 1..MaxRows rows and 1..MaxWidth columns.
MaxRows == 2
\* The epochs run by all learn calls of a behaviour together.
MaxEpochs == 2
\* err_print_frequency is drawn from 1..MaxFrequency.
MaxFrequency == 2
\* Seeds of the random source.
MaxSeed == 1

(* ------------------------------ scalars -------------------------------- *)

NaN == 0 - 1000000

Trunc(n, d) == IF n >= 0 THEN n \div d ELSE 0 - ((0 - n) \div d)

FAdd(a, b) == IF a = NaN \/ b = NaN THEN NaN ELSE a + b

FSub(a, b) == IF a = NaN \/ b = NaN THEN NaN ELSE a - b

FMul(a, b) == IF a = NaN \/ b = NaN THEN NaN ELSE Trunc(a * b, Unit)

\* sum / n as np.mean computes it: 0/0 is nan.
FDiv(a, n) == IF a = NaN \/ n = 0 THEN NaN ELSE Trunc(a, n)

FAbs(a) == IF a = NaN THEN NaN ELSE IF a < 0 THEN 0 - a ELSE a

sigmoid(x) ==
    IF x = NaN THEN NaN
    ELSE LET y == (Unit \div 2) + Trunc(x, 4)
         IN  IF y < 1 THEN 1 ELSE IF y > Unit - 1 THEN Unit - 1 ELSE y

deriv_sigmoid(x) ==
    LET fx == sigmoid(x)
    IN  FMul(fx, FSub(Unit, fx))

RECURSIVE SeqSum(_)
SeqSum(s) == IF s = << >> THEN 0 ELSE FAdd(s[1], SeqSum(Tail(s)))

(* ------------------------------- arrays -------------------------------- *)

Arr(nd, r, c, v) == [nd |-> nd, r |-> r, c |-> c, v |-> v]

Raised == [nd |-> 0, r |-> 0, c |-> 0, v |-> << >>]

Failed(a) == a.nd = 0

\* np.dot that clamps a disagreeing inner dimension to the shorter one
\* instead of raising.
dotClamping(a, b) ==
    IF Failed(a) \/ Failed(b) THEN Raised
    ELSE Arr(a.nd, a.r, b.c,
             [x \in 1..a.r |-> [y \in 1..b.c |->
                 SeqSum([k \in 1..(IF a.c < b.r THEN a.c ELSE b.r) |->
                            FMul(a.v[x][k], b.v[k][y])])]])

\* np.dot(a, b) with b 2-D (in this program b is always a weight matrix, its
\* transpose or a batch): (n,).(n,m) -> (m,), (r,n).(n,m) -> (r,m), else
\* ValueError.
dot(a, b) ==
    IF Failed(a) \/ Failed(b) THEN Raised
    ELSE IF a.c # b.r THEN Raised
    ELSE Arr(a.nd, a.r, b.c,
             [x \in 1..a.r |-> [y \in 1..b.c |->
                 SeqSum([k \in 1..a.c |-> FMul(a.v[x][k], b.v[k][y])])]])

\* One dimension of numpy's broadcast of two shapes; -1 when they disagree.
BDim(x, y) == IF x = y THEN x ELSE IF x = 1 THEN y ELSE IF y = 1 THEN x ELSE 0 - 1

BIdx(n, k) == IF n = 1 THEN 1 ELSE k

\* numpy's broadcast of two arrays: the array of the pairs of entries an
\* elementwise binary operation combines; ValueError when the shapes disagree.
Broadcast(a, b) ==
    IF Failed(a) \/ Failed(b) THEN Raised
    ELSE IF BDim(a.r, b.r) < 0 \/ BDim(a.c, b.c) < 0 THEN Raised
    ELSE Arr(IF a.nd > b.nd THEN a.nd ELSE b.nd, BDim(a.r, b.r), BDim(a.c, b.c),
             [x \in 1..BDim(a.r, b.r) |-> [y \in 1..BDim(a.c, b.c) |->
                 <<a.v[BIdx(a.r, x)][BIdx(a.c, y)],
                   b.v[BIdx(b.r, x)][BIdx(b.c, y)]>>]])

\* a + b
add(a, b) ==
    LET z == Broadcast(a, b)
    IN  IF Failed(z) THEN Raised
        ELSE Arr(z.nd, z.r, z.c,
                 [x \in 1..z.r |-> [y \in 1..z.c |-> FAdd(z.v[x][y][1], z.v[x][y][2])]])

\* a - b
subtract(a, b) ==
    LET z == Broadcast(a, b)
    IN  IF Failed(z) THEN Raised
        ELSE Arr(z.nd, z.r, z.c,
                 [x \in 1..z.r |-> [y \in 1..z.c |-> FSub(z.v[x][y][1], z.v[x][y][2])]])

\* np.multiply(a, b)
multiply(a, b) ==
    LET z == Broadcast(a, b)
    IN  IF Failed(z) THEN Raised
        ELSE Arr(z.nd, z.r, z.c,
                 [x \in 1..z.r |-> [y \in 1..z.c |-> FMul(z.v[x][y][1], z.v[x][y][2])]])

\* a = a + b in place of a += b: the name is rebound to the broadcast sum.
iaddRebinding(a, b) == add(a, b)

\* a += b: b is broadcast into a's shape, which the statement cannot change;
\* ValueError when the broadcast shape is not a's.
iadd(a, b) ==
    LET s == add(a, b)
    IN  IF Failed(s) \/ s.nd # a.nd \/ s.r # a.r \/ s.c # a.c THEN Raised ELSE s

\* a.T of a 2-D array.
T(a) ==
    IF Failed(a) THEN Raised
    ELSE Arr(2, a.c, a.r, [x \in 1..a.c |-> [y \in 1..a.r |-> a.v[y][x]]])

\* a * s for a scalar s.
times(a, s) ==
    IF Failed(a) THEN Raised
    ELSE Arr(a.nd, a.r, a.c, [x \in 1..a.r |-> [y \in 1..a.c |-> FMul(a.v[x][y], s)]])

\* np.mean(a, axis=0) of a 2-D array: a 1-D array of the column means.
mean0(a) ==
    IF Failed(a) THEN Raised
    ELSE Arr(1, 1, a.c,
             [x \in 1..1 |-> [y \in 1..a.c |->
                 FDiv(SeqSum([k \in 1..a.r |-> a.v[k][y]]), a.r)]])

\* np.mean(np.abs(a)): the mean of all entries' absolute values.
meanabs(a) ==
    FDiv(SeqSum([k \in 1..(a.r * a.c) |->
                    FAbs(a.v[((k - 1) \div a.c) + 1][((k - 1) % a.c) + 1])]),
         a.r * a.c)

sigmoidA(a) ==
    IF Failed(a) THEN Raised
    ELSE Arr(a.nd, a.r, a.c, [x \in 1..a.r |-> [y \in 1..a.c |-> sigmoid(a.v[x][y])]])

deriv_sigmoidA(a) ==
    IF Failed(a) THEN Raised
    ELSE Arr(a.nd, a.r, a.c,
             [x \in 1..a.r |-> [y \in 1..a.c |-> deriv_sigmoid(a.v[x][y])]])

(* ------------------------- the program's math -------------------------- *)

Last(s) == s[Len(s)]

\* Lines 72-74: li = sigmoid(np.dot(li, synapses[i]) + biases[i]) for each i.
RECURSIVE FeedLayers(_, _, _, _)
FeedLayers(W, B, li, k) ==
    IF k > Len(W) THEN li
    ELSE FeedLayers(W, B, sigmoidA(add(dot(li, W[k]), B[k])), k + 1)

\* Lines 71-75: what feedforward(x) computes from the parameters W, B.
FeedforwardOf(W, B, x) == FeedLayers(W, B, x, 1)

\* Lines 100-102: Si.append(np.dot(Xi[i], synapses[i]) + biases[i]);
\* Xi.append(sigmoid(Si[-1])).
RECURSIVE ForwardLayers(_, _, _, _)
ForwardLayers(W, B, S, X) ==
    IF Len(X) > Len(W) THEN [S |-> S, X |-> X]
    ELSE LET s == add(dot(Last(X), W[Len(X)]), B[Len(X)])
         IN  ForwardLayers(W, B, Append(S, s), Append(X, sigmoidA(s)))

\* Lines 98-102: Si = [inp], Xi = [sigmoid(Si[-1])], then the layers.
ForwardPass(W, B, x) == ForwardLayers(W, B, <<x>>, <<sigmoidA(x)>>)

\* Lines 106-108: for i in range(len(Xi) - 2, 0, -1):
\*                    Ei.insert(0, Ei[0].dot(synapses[i].T))
\* (i is the source's 0-based index: synapses[i] is W[i + 1] here).
RECURSIVE BackLayers(_, _, _)
BackLayers(W, E, i) ==
    IF i <= 0 THEN E
    ELSE BackLayers(W, <<dot(E[1], T(W[i + 1]))>> \o E, i - 1)

\* Lines 105-108: Ei = [out - Xi[-1]], then the hidden layers' errors.
BackwardPass(W, X, y) == BackLayers(W, <<subtract(y, Last(X))>>, Len(X) - 2)

\* Lines 113-114, for the source's 0-based i.
Grad(E, S, i) == multiply(E[i + 1], deriv_sigmoidA(S[i + 2]))

Dw(E, S, X, i) == T(dot(T(Grad(E, S, i)), X[i + 1]))

\* Line 115: the new synapses[i] (Raised when += raises).
NewSynapse(W, E, S, X, lr, i) == iadd(W[i + 1], times(Dw(E, S, X, i), lr))

\* Line 116: the new biases[i].
NewBias(B, E, S, X, lr, i) == iadd(B[i + 1], times(mean0(Dw(E, S, X, i)), lr))

\* A loop that tests after the body: one more epoch than range(epochs).
InRangeInclusive(epoch, epochs) == epoch <= epochs

\* Line 95: whether range(epochs) yields the value epoch.
InRange(epoch, epochs) == epoch < epochs

\* range(len(synapses) - 1): the last layer is never updated.
InLayersShort(i, n) == i + 1 < n

\* Line 111: whether range(len(synapses)) yields the value i.
InLayers(i, n) == i < n

(* ------------------------------- inputs -------------------------------- *)

\* The random source: entry (a, b) of the i-th array drawn under a seed, a
\* value of [-1, 1) as 2 * np.random.random(...) - 1 gives it.
Rand(seed, i, a, b) == 2 * ((seed * 29 + i * 13 + a * 7 + b * 3) % Unit) - Unit

Seeds == 1..MaxSeed

\* Constructor arguments: 1..MaxLayers sizes, each in -1..MaxWidth.
LayerArgs == UNION {[1..n -> (0 - 1)..MaxWidth] : n \in 1..MaxLayers}

\* Input data: 0/1 entries in a checkerboard.
Input(nd, r, c) ==
    Arr(nd, r, c, [a \in 1..r |-> [b \in 1..c |-> IF (a + b) % 2 = 0 THEN Unit ELSE 0]])

\* Target data: rows alternate 1, 0.
Target(r, c) ==
    Arr(2, r, c, [a \in 1..r |-> [b \in 1..c |-> IF a % 2 = 1 THEN Unit ELSE 0]])

Widths == 1..MaxWidth

InputBatches == {Input(2, r, c) : r \in 1..MaxRows, c \in Widths}

InputVectors == {Input(1, 1, c) : c \in Widths}

TargetBatches == {Target(r, c) : r \in 1..MaxRows, c \in Widths}

EpochCounts == (0 - 1)..MaxEpochs

\* 0.5: at this resolution the default .1 of line 81 rounds most updates to 0.
LearningRates == {Unit \div 2}

\* err_print with its frequency; 10000 is the default of line 83.
Reporting == {<<FALSE, 10000>>} \cup {<<TRUE, f>> : f \in 1..MaxFrequency}

Max(a, b) == IF a > b THEN a ELSE b

(* -------------------------------- state -------------------------------- *)

VARIABLES
    pc,                  \* where the program is
    layers,              \* the sizes the constructor was called with
    synapses, biases,    \* self._synapses, self._biases
    inp, out, epochs, learning_rate, err_print, err_print_frequency,
    epoch, Si, Xi, Ei, i,          \* learn's parameters and locals
    ret,                 \* the outcome of the last call
    printed,             \* what the running learn call has printed
    entry,               \* the parameters when the running learn call began
    epochStart,          \* the parameters when the running epoch began
    updLog,              \* the parameter updates of the running epoch, in order
    epochsRun,           \* the epochs the running learn call has completed
    budget,              \* the epochs requested by all learn calls so far
    lastEval             \* the last feedforward since the last learn call

params == <<synapses, biases>>
args == <<inp, out, epochs, learning_rate, err_print, err_print_frequency>>
locals == <<epoch, Si, Xi, Ei, i>>
ghosts == <<printed, entry, epochStart, updLog, epochsRun>>
vars == <<pc, layers, params, args, locals, ret, ghosts, budget, lastEval>>

NoParams == [synapses |-> << >>, biases |-> << >>]
NoEval == [valid |-> FALSE, inp |-> Raised, val |-> Raised]
NoReturn == [kind |-> "none", val |-> Raised]

NoFrame ==
    /\ inp = Raised /\ out = Raised /\ epochs = 0 /\ learning_rate = 0
    /\ err_print = FALSE /\ err_print_frequency = 0
    /\ epoch = 0 /\ Si = << >> /\ Xi = << >> /\ Ei = << >> /\ i = 0
    /\ printed = << >> /\ entry = NoParams /\ epochStart = NoParams
    /\ updLog = << >> /\ epochsRun = 0

Init ==
    /\ pc = "new"
    /\ layers = << >>
    /\ synapses = << >> /\ biases = << >>
    /\ NoFrame
    /\ ret = NoReturn
    /\ budget = 0
    /\ lastEval = NoEval

(* ------------------------------- actions ------------------------------- *)

ClearFrame ==
    /\ inp' = Raised /\ out' = Raised /\ epochs' = 0 /\ learning_rate' = 0
    /\ err_print' = FALSE /\ err_print_frequency' = 0
    /\ epoch' = 0 /\ Si' = << >> /\ Xi' = << >> /\ Ei' = << >> /\ i' = 0
    /\ printed' = << >> /\ entry' = NoParams /\ epochStart' = NoParams
    /\ updLog' = << >> /\ epochsRun' = 0

\* Lines 51-63: Perceptron(*sizes).  Python rejects a call with fewer than two
\* sizes (TypeError); np.random.random rejects a negative dimension
\* (ValueError) and accepts a zero one.
Construct(sizes, seed) ==
    /\ pc = "new"
    /\ layers' = sizes
    /\ UNCHANGED <<args, locals, ghosts, budget, lastEval>>
    /\ IF Len(sizes) < 2
       THEN /\ pc' = "dead"
            /\ ret' = [kind |-> "TypeError", val |-> Raised]
            /\ UNCHANGED params
       ELSE IF \E k \in 1..Len(sizes) : sizes[k] < 0
       THEN /\ pc' = "dead"
            /\ ret' = [kind |-> "ValueError", val |-> Raised]
            /\ UNCHANGED params
       ELSE /\ pc' = "idle"
            /\ ret' = [kind |-> "None", val |-> Raised]
            /\ synapses' = [k \in 1..(Len(sizes) - 1) |->
                   Arr(2, sizes[k], sizes[k + 1],
                       [a \in 1..sizes[k] |-> [b \in 1..sizes[k + 1] |->
                           Rand(seed, k, a, b)]])]
            /\ biases' = [k \in 1..(Len(sizes) - 1) |->
                   Arr(1, 1, sizes[k + 1],
                       [a \in 1..1 |-> [b \in 1..sizes[k + 1] |->
                           Rand(seed, k, 0, b)]])]

\* feedforward accumulating the first layer's sum into self._biases[0].
FeedforwardInPlace(x) ==
    /\ pc = "idle"
    /\ LET li == FeedforwardOf(synapses, biases, x)
           b == iadd(biases[1], dot(x, synapses[1]))
       IN  /\ ret' = IF Failed(li) THEN [kind |-> "ValueError", val |-> Raised]
                     ELSE [kind |-> "value", val |-> li]
           /\ lastEval' = [valid |-> TRUE, inp |-> x, val |-> li]
           /\ biases' = IF Failed(b) THEN biases ELSE [biases EXCEPT ![1] = b]
    /\ UNCHANGED <<pc, layers, synapses, args, locals, ghosts, budget>>

\* Lines 65-75: feedforward(x), a whole call.
Feedforward(x) ==
    /\ pc = "idle"
    /\ LET li == FeedforwardOf(synapses, biases, x)
       IN  /\ ret' = IF Failed(li) THEN [kind |-> "ValueError", val |-> Raised]
                     ELSE [kind |-> "value", val |-> li]
           /\ lastEval' = [valid |-> TRUE, inp |-> x, val |-> li]
    /\ UNCHANGED <<pc, layers, params, args, locals, ghosts, budget>>

\* Lines 77-95: learn(x, y, n, lr, rep[1], rep[2]) is called: the arguments
\* are bound, and range(epochs) is entered or is empty.
LearnCall(x, y, n, lr, rep) ==
    /\ pc = "idle"
    /\ budget + Max(n, 0) <= MaxEpochs
    /\ budget' = budget + Max(n, 0)
    /\ inp' = x /\ out' = y /\ epochs' = n /\ learning_rate' = lr
    /\ err_print' = rep[1] /\ err_print_frequency' = rep[2]
    /\ epoch' = 0
    /\ entry' = [synapses |-> synapses, biases |-> biases]
    /\ lastEval' = NoEval
    /\ IF InRange(0, n)
       THEN /\ pc' = "forward"
            /\ ret' = NoReturn
       ELSE /\ pc' = "return"
            /\ ret' = [kind |-> "None", val |-> Raised]
    /\ UNCHANGED <<layers, params, Si, Xi, Ei, i, printed, epochStart, updLog,
                   epochsRun>>

\* Lines 98-102: the forward pass of an epoch.
Forward ==
    /\ pc = "forward"
    /\ epochStart' = [synapses |-> synapses, biases |-> biases]
    /\ updLog' = << >>
    /\ LET f == ForwardPass(synapses, biases, inp)
       IN  /\ Si' = f.S
           /\ Xi' = f.X
           /\ IF Failed(Last(f.X))
              THEN /\ pc' = "raise"
                   /\ ret' = [kind |-> "ValueError", val |-> Raised]
              ELSE /\ pc' = "backward"
                   /\ UNCHANGED ret
    /\ UNCHANGED <<layers, params, args, epoch, Ei, i, printed, entry, epochsRun,
                   budget, lastEval>>

\* Lines 105-108: the errors of all layers but the input layer.
Backward ==
    /\ pc = "backward"
    /\ LET e == BackwardPass(synapses, Xi, out)
       IN  /\ Ei' = e
           /\ IF Failed(e[1])
              THEN /\ pc' = "raise"
                   /\ ret' = [kind |-> "ValueError", val |-> Raised]
                   /\ UNCHANGED i
              ELSE /\ pc' = "update"
                   /\ i' = 0
                   /\ UNCHANGED ret
    /\ UNCHANGED <<layers, params, args, epoch, Si, Xi, ghosts, budget, lastEval>>

\* The update loop recomputing the sums and activations from the parameters
\* as they are now, before each layer's gradient.
UpdateRefreshing ==
    /\ pc = "update"
    /\ LET f == ForwardPass(synapses, biases, inp)
           w == NewSynapse(synapses, Ei, f.S, f.X, learning_rate, i)
           b == NewBias(biases, Ei, f.S, f.X, learning_rate, i)
       IN  /\ Si' = f.S
           /\ Xi' = f.X
           /\ IF Failed(w) \/ Failed(b)
              THEN /\ pc' = "raise"
                   /\ ret' = [kind |-> "ValueError", val |-> Raised]
                   /\ UNCHANGED <<params, i, updLog>>
              ELSE /\ synapses' = [synapses EXCEPT ![i + 1] = w]
                   /\ biases' = [biases EXCEPT ![i + 1] = b]
                   /\ updLog' = updLog \o <<<<"synapses", i>>, <<"biases", i>>>>
                   /\ i' = i + 1
                   /\ pc' = IF InLayers(i + 1, Len(synapses))
                            THEN "update" ELSE "report"
                   /\ UNCHANGED ret
    /\ UNCHANGED <<layers, args, epoch, Ei, printed, entry, epochStart,
                   epochsRun, budget, lastEval>>

\* Lines 111-116: one iteration of the update loop.
Update ==
    /\ pc = "update"
    /\ LET w == NewSynapse(synapses, Ei, Si, Xi, learning_rate, i)
           b == NewBias(biases, Ei, Si, Xi, learning_rate, i)
       IN  IF Failed(w)
           THEN /\ pc' = "raise"
                /\ ret' = [kind |-> "ValueError", val |-> Raised]
                /\ UNCHANGED <<params, i, updLog>>
           ELSE /\ synapses' = [synapses EXCEPT ![i + 1] = w]
                /\ IF Failed(b)
                   THEN /\ pc' = "raise"
                        /\ ret' = [kind |-> "ValueError", val |-> Raised]
                        /\ updLog' = Append(updLog, <<"synapses", i>>)
                        /\ UNCHANGED <<biases, i>>
                   ELSE /\ biases' = [biases EXCEPT ![i + 1] = b]
                        /\ updLog' = updLog \o <<<<"synapses", i>>, <<"biases", i>>>>
                        /\ i' = i + 1
                        /\ pc' = IF InLayers(i + 1, Len(synapses))
                                 THEN "update" ELSE "report"
                        /\ UNCHANGED ret
    /\ UNCHANGED <<layers, args, epoch, Si, Xi, Ei, printed, entry, epochStart,
                   epochsRun, budget, lastEval>>

\* Reporting that leaves the loop once it has printed.
ReportBreaking ==
    /\ pc = "report"
    /\ printed' = IF err_print /\ (epoch % err_print_frequency) = 0
                  THEN Append(printed, meanabs(Last(Ei)))
                  ELSE printed
    /\ epoch' = epoch + 1
    /\ epochsRun' = epochsRun + 1
    /\ IF InRange(epoch + 1, epochs)
          /\ ~(err_print /\ (epoch % err_print_frequency) = 0)
       THEN /\ pc' = "forward"
            /\ UNCHANGED ret
       ELSE /\ pc' = "return"
            /\ ret' = [kind |-> "None", val |-> Raised]
    /\ UNCHANGED <<layers, params, args, Si, Xi, Ei, i, entry, epochStart, updLog,
                   budget, lastEval>>

\* Lines 119-120 and the loop's step: the error is printed when asked for,
\* and the next epoch begins or learn returns.
Report ==
    /\ pc = "report"
    /\ printed' = IF err_print /\ (epoch % err_print_frequency) = 0
                  THEN Append(printed, meanabs(Last(Ei)))
                  ELSE printed
    /\ epoch' = epoch + 1
    /\ epochsRun' = epochsRun + 1
    /\ IF InRange(epoch + 1, epochs)
       THEN /\ pc' = "forward"
            /\ UNCHANGED ret
       ELSE /\ pc' = "return"
            /\ ret' = [kind |-> "None", val |-> Raised]
    /\ UNCHANGED <<layers, params, args, Si, Xi, Ei, i, entry, epochStart, updLog,
                   budget, lastEval>>

\* learn's frame is left, by return or by the exception.
Leave ==
    /\ pc \in {"return", "raise"}
    /\ pc' = "idle"
    /\ ClearFrame
    /\ UNCHANGED <<layers, params, ret, budget, lastEval>>

Next ==
    \/ \E sizes \in LayerArgs, seed \in Seeds : Construct(sizes, seed)
    \/ \E x \in InputBatches \cup InputVectors : Feedforward(x)
    \/ \E x \in InputBatches, y \in TargetBatches, n \in EpochCounts,
          lr \in LearningRates, rep \in Reporting : LearnCall(x, y, n, lr, rep)
    \/ Forward
    \/ Backward
    \/ Update
    \/ Report
    \/ Leave

Spec == Init /\ [][Next]_vars

(* --------------------- learn as a function of its inputs --------------- *)

\* Lines 97-116: the parameters one epoch leaves, from the parameters W, B it
\* starts with.  Reporting (lines 119-120) has no part in it.
EpochOf(W, B, x, y, lr) ==
    LET f == ForwardPass(W, B, x)
        e == BackwardPass(W, f.X, y)
    IN  [synapses |-> [k \in 1..Len(W) |-> NewSynapse(W, e, f.S, f.X, lr, k - 1)],
         biases |-> [k \in 1..Len(B) |-> NewBias(B, e, f.S, f.X, lr, k - 1)]]

\* Lines 95-116: the parameters n epochs leave.
RECURSIVE TrainOf(_, _, _, _, _, _)
TrainOf(W, B, x, y, lr, n) ==
    IF n <= 0 THEN [synapses |-> W, biases |-> B]
    ELSE LET p == EpochOf(W, B, x, y, lr)
         IN  TrainOf(p.synapses, p.biases, x, y, lr, n - 1)

(* ------------------------------- claims -------------------------------- *)

InLearn == pc \in {"forward", "backward", "update", "report", "return", "raise"}

Constructed == pc \notin {"new", "dead"}

Positive == \A k \in 1..Len(layers) : layers[k] > 0

Current == [synapses |-> synapses, biases |-> biases]

\* The data of the running learn call disagrees with the network's widths or
\* with itself.
Mismatch ==
    \/ inp.r # out.r
    \/ inp.c # layers[1]
    \/ out.c # Last(layers)

\* C1 (as claimed): a learn call over at least one epoch whose inputs and
\* targets differ in row count, or whose widths are not the first and last
\* layer sizes, raises before any epoch runs: it never reaches the end of an
\* epoch or returns, and the parameters stay those of the call's entry.
C1_MismatchRaisesBeforeAnyEpoch ==
    (InLearn /\ Positive /\ epochs > 0 /\ Mismatch)
        => /\ pc \notin {"report", "return"}
           /\ Current = entry
           /\ epochsRun = 0

\* C2: feedforward on a vector or batch of width layers[0] returns an array of
\* the same number of dimensions and rows and of width layers[-1]; on any
\* other width it raises numpy's ValueError (the dimension mismatch) and
\* returns nothing.
C2_FeedforwardShape ==
    (pc = "idle" /\ lastEval.valid)
        => IF lastEval.inp.c = layers[1]
           THEN /\ ret.kind = "value"
                /\ ret.val.nd = lastEval.inp.nd
                /\ ret.val.r = lastEval.inp.r
                /\ ret.val.c = Last(layers)
                /\ Len(ret.val.v) = ret.val.r
                /\ \A k \in 1..ret.val.r : Len(ret.val.v[k]) = ret.val.c
           ELSE /\ ret.kind = "ValueError"
                /\ Failed(ret.val)

C2_Witness ==
    /\ pc = "idle" /\ lastEval.valid /\ Positive
    /\ Len(layers) = 3
    /\ lastEval.inp.nd = 2 /\ lastEval.inp.r = 2
    /\ lastEval.inp.c # layers[1]
    /\ ret.kind = "ValueError"

\* C3 (as claimed): a constructor call with fewer than 2 sizes, or with a
\* size that is zero or negative, fails and yields no network; a call with 2
\* or more positive sizes succeeds.
C3_ConstructionValidates ==
    (pc # "new")
        => IF Len(layers) >= 2 /\ Positive
           THEN pc # "dead"
           ELSE pc = "dead" /\ synapses = << >> /\ biases = << >>

\* C4: in every state after construction the network has len(layers) - 1
\* weight matrices and as many bias vectors, weights[k] of shape
\* (layers[k], layers[k+1]) and biases[k] of length layers[k+1].
C4_ShapesKept ==
    Constructed
        => /\ Len(synapses) = Len(layers) - 1
           /\ Len(biases) = Len(layers) - 1
           /\ \A k \in 1..(Len(layers) - 1) :
                /\ synapses[k].nd = 2
                /\ synapses[k].r = layers[k]
                /\ synapses[k].c = layers[k + 1]
                /\ Len(synapses[k].v) = layers[k]
                /\ \A a \in 1..layers[k] : Len(synapses[k].v[a]) = layers[k + 1]
                /\ biases[k].nd = 1
                /\ biases[k].r = 1
                /\ biases[k].c = layers[k + 1]
                /\ Len(biases[k].v[1]) = layers[k + 1]

\* A learn call whose target is broadcast (its data disagree with the widths)
\* has updated a weight matrix.
C4_Witness ==
    /\ pc = "update" /\ i >= 1 /\ Positive /\ Mismatch
    /\ synapses # entry.synapses

\* C5: learn with a non-positive epoch count returns without an error and
\* with every weight and bias as it was at the call, whatever the data, the
\* learning rate and the reporting are.
C5_NoEpochsNoChange ==
    (InLearn /\ epochs <= 0)
        => /\ pc = "return"
           /\ ret.kind = "None"
           /\ Current = entry
           /\ epochsRun = 0
           /\ printed = << >>

C5_Witness ==
    /\ pc = "return" /\ epochs = 0 /\ Positive /\ Mismatch /\ err_print

\* C6: a feedforward call, on a valid input or not, leaves the weights and
\* biases as they were, and a feedforward call repeated on the same input with
\* no learn call in between has the same outcome.
C6_FeedforwardIsPure ==
    [][(pc = "idle" /\ pc' = "idle")
          => /\ synapses' = synapses
             /\ biases' = biases
             /\ (lastEval.valid /\ lastEval'.inp = lastEval.inp)
                    => (lastEval'.val = lastEval.val /\ ret' = ret)]_vars

\* After a learn call that changed the parameters, a feedforward call on an
\* input of the wrong width has raised.
C6_Witness ==
    /\ pc = "idle" /\ lastEval.valid /\ Positive /\ budget > 0
    /\ lastEval.inp.c # layers[1]
    /\ ret.kind = "ValueError"

\* C7: learn ends with the parameters the epochs alone determine (a function
\* of the entry parameters, the data, the epoch count and the learning rate,
\* not of err_print or err_print_frequency), and reporting never ends the run
\* before the configured number of epochs.
C7_ReportingIsInert ==
    /\ (pc = "return")
          => /\ Current = TrainOf(entry.synapses, entry.biases, inp, out,
                                  learning_rate, epochs)
             /\ epochsRun = Max(epochs, 0)
    /\ (pc = "report") => epoch < epochs

C7_Witness ==
    /\ pc = "return" /\ Positive /\ ~Mismatch
    /\ err_print /\ err_print_frequency = 1
    /\ epochs = 2 /\ Len(printed) = 2
    /\ Current # entry

\* C8 (as claimed): the last activation of a training epoch's forward pass is
\* what feedforward returns for the same parameters and input.
C8_TrainerForwardIsFeedforward ==
    (pc = "backward" /\ Positive /\ ~Mismatch)
        => Last(Xi) = FeedforwardOf(synapses, biases, inp)

\* The updates of one epoch, in the order of the source: synapses[k] then
\* biases[k], for k = 0, 1, ..., n - 1.
RECURSIVE UpdatesUpTo(_)
UpdatesUpTo(n) ==
    IF n = 0 THEN << >>
    ELSE UpdatesUpTo(n - 1) \o <<<<"synapses", n - 1>>, <<"biases", n - 1>>>>

\* C9: a learn call that returns has run exactly max(epochs, 0) epochs; in
\* each epoch every weight matrix and bias vector is updated exactly once, in
\* increasing order of the layer; and the parameters change in no other step.
C9_EpochsAndUpdates ==
    /\ [](/\ (pc = "return") => epochsRun = Max(epochs, 0)
          /\ (pc \in {"forward", "backward", "update", "report"})
                 => (epoch = epochsRun /\ epoch < epochs)
          /\ (pc = "update")
                 => (i < Len(synapses) /\ updLog = UpdatesUpTo(i))
          /\ (pc = "report") => updLog = UpdatesUpTo(Len(synapses)))
    /\ [][(synapses' # synapses \/ biases' # biases)
             => (pc = "new" \/ (pc = "update" /\ pc' # "raise"))]_vars

C9_Witness ==
    /\ pc = "return" /\ Positive /\ ~Mismatch
    /\ Len(layers) = 3
    /\ epochs = 2 /\ epochsRun = 2
    /\ Current # entry

\* C10: while an epoch updates, the sums, activations and all len(layers) - 1
\* error terms are those computed from the parameters the epoch began with,
\* every update already made is the one those values give, and the layers not
\* yet updated still hold the parameters the epoch began with; the forward
\* pass of an epoch reads the parameters as the previous epoch left them.
C10_GradientsFromEpochStart ==
    /\ (pc \in {"update", "report"})
          => LET f == ForwardPass(epochStart.synapses, epochStart.biases, inp)
                 e == BackwardPass(epochStart.synapses, f.X, out)
                 p == EpochOf(epochStart.synapses, epochStart.biases, inp, out,
                              learning_rate)
             IN  /\ Si = f.S /\ Xi = f.X /\ Ei = e
                 /\ Len(Ei) = Len(layers) - 1
                 /\ \A k \in 1..Len(synapses) :
                      IF k <= i
                      THEN /\ synapses[k] = p.synapses[k]
                           /\ biases[k] = p.biases[k]
                      ELSE /\ synapses[k] = epochStart.synapses[k]
                           /\ biases[k] = epochStart.biases[k]
    /\ (pc = "backward")
          => /\ Current = epochStart
             /\ Xi = ForwardPass(synapses, biases, inp).X
             /\ Current = TrainOf(entry.synapses, entry.biases, inp, out,
                                  learning_rate, epoch)

\* In the second epoch of a call, after the first layer's update, which
\* changed it, and before the second layer's.
C10_Witness ==
    /\ pc = "update" /\ i = 1 /\ epoch = 1 /\ Positive /\ ~Mismatch
    /\ Len(layers) = 3
    /\ epochStart # entry
    /\ synapses[1] # epochStart.synapses[1]

====
